---- MODULE Spec2Model ----
(***************************************************************************)
(* Model of gym_missile_command/game/enemy_missiles.py (class              *)
(* EnemyMissiles): curriculum queues, seeded launches, the float32 batch   *)
(* kinematics of step() and the episode-termination flag.                  *)
(*                                                                         *)
(* Numbers.  Every float of the program is carried as an integer count of  *)
(* units of 2^-27 (One = 1.0).  Python floats (float64) that occur here    *)
(* have fewer than 31 significant bits, so float64 +, - and the products   *)
(* used are exact on the carrier.  The rows of enemy_missiles are float32  *)
(* (dtype=np.float32): F32 rounds a carrier value to 24 significant bits,  *)
(* round-half-to-even, which is what numpy does on every store and on      *)
(* every float32 array operation.                                          *)
(***************************************************************************)
EXTENDS Integers, Sequences, FiniteSets, TLC

\* ------------------------------------------------------------------------
\* Bounds of the model
\* ------------------------------------------------------------------------
MaxTicks == 7          \* step calls per episode (between two resets)
MaxNumber == 2         \* largest CONFIG.ENEMY_MISSILES.NUMBER explored

\* ------------------------------------------------------------------------
\* Number representation
\* ------------------------------------------------------------------------
One == 2^27
Mant == 2^24           \* float32: 24 significant bits

\* seed=None: Random() seeds itself from the operating system
None == -1

Abs(n) == IF n < 0 THEN -n ELSE n

\* np.sign
Sign(n) == IF n > 0 THEN 1 ELSE IF n < 0 THEN -1 ELSE 0

\* np.minimum
Minimum(a, b) == IF a <= b THEN a ELSE b

RECURSIVE Quantum(_)
\* spacing of float32 values at magnitude n (n >= 0), in carrier units
Quantum(n) == IF n < Mant THEN 1 ELSE 2 * Quantum(n \div 2)

\* float32 rounding of a non-negative carrier value: nearest, ties to even
F32Abs(n) ==
    LET q == Quantum(n)
        t == n \div q
        r == n % q
        up == (2 * r > q) \/ (2 * r = q /\ t % 2 = 1)
    IN  IF up THEN (t + 1) * q ELSE t * q

\* conversion to float32 (dtype=np.float32)
F32(n) == IF n < 0 THEN -F32Abs(-n) ELSE F32Abs(n)

RECURSIVE GCD(_, _)
GCD(a, b) == IF b = 0 THEN a ELSE GCD(b, a % b)

\* floor of the square root of a natural number
ISqrt(n) == CHOOSE r \in 0..n : r * r <= n /\ n < (r + 1) * (r + 1)

\* norm = np.sqrt(np.square(dx) + np.square(dy)), dx and dy in carrier units.
\* The common factor g is taken out before squaring; the result is the exact
\* float64 value whenever (dx/g)^2 + (dy/g)^2 is a perfect square (NormExact).
Norm(dx, dy) ==
    LET g == GCD(Abs(dx), Abs(dy))
    IN  IF g = 0 THEN 0
        ELSE g * ISqrt((dx \div g) * (dx \div g) + (dy \div g) * (dy \div g))

NormExact(dx, dy) ==
    LET g == GCD(Abs(dx), Abs(dy))
        s == (dx \div g) * (dx \div g) + (dy \div g) * (dy \div g)
    IN  g = 0 \/ ISqrt(s) * ISqrt(s) = s

RECURSIVE RatQuantum(_, _)
\* float32 spacing, in carrier units, at the magnitude of the rational
\* p/q (in units of 1.0), p >= 0, q > 0: 2^(e-23) for 2^e <= p/q < 2^(e+1)
RatQuantum(p, q) ==
    IF p >= 2 * q THEN 2 * RatQuantum(p, 2 * q)
    ELSE IF p >= q THEN One \div (Mant \div 2)
    ELSE RatQuantum(2 * p, q) \div 2

\* the float32 nearest to the rational p/q (p >= 0, q > 0), in carrier units
RatF32(p, q) ==
    IF p = 0 THEN 0
    ELSE LET u == RatQuantum(p, q)       \* result is a multiple of u
             k == One \div u             \* p/q = (p*k/q) * u  (in units of 1.0 / One)
             t == (p * k) \div q
             r == (p * k) % q
             up == (2 * r > q) \/ (2 * r = q /\ t % 2 = 1)
         IN  (IF up THEN t + 1 ELSE t) * u

\* the float nan: no number of the program has this carrier value
NaN == 2 * (2^30 - 1) + 1

\* (mutation: the unit vector is not multiplied by SPEED)
VelocityUnscaled(speed, d, norm) ==
    IF norm = 0 THEN NaN
    ELSE LET g == GCD(Abs(d), norm)
         IN  Sign(d) * RatF32(Abs(d) \div g, norm \div g)

\* vx = SPEED * ((x1 - x0) / norm), stored as float32.  d and norm are carrier
\* values, speed a whole number.  norm is a numpy float64: with norm = 0 the
\* division is 0.0 / 0.0, for which numpy gives nan (and a RuntimeWarning),
\* not an exception.
Velocity(speed, d, norm) ==
    IF norm = 0 THEN NaN
    ELSE LET g == GCD(Abs(d), norm)
         IN  Sign(d) * RatF32(speed * (Abs(d) \div g), norm \div g)

\* ------------------------------------------------------------------------
\* Inputs explored
\* ------------------------------------------------------------------------
Inst == {1, 2}                          \* EnemyMissiles objects
Actions == 0..5                         \* the action argument of step
Seeds == 0..3                           \* seeds passed to reset

Full == <<-(One \div 2), One \div 2>>   \* (-0.5, 0.5)
RangeA == <<1, 1>>                      \* (2^-27, 2^-27)
RangeB == <<3 * (One \div 8) + 1, 3 * (One \div 8) + 1>>
Ranges == {Full, RangeA, RangeB}

\* values returned by Random.random(), each in [0, 1)
RandomValues == <<(One \div 2) + 1, 7 * (One \div 8) + 1>>

\* CONFIG.EPISODE.* and CONFIG.ENEMY_MISSILES.{NUMBER, PROBA_IN, SPEED}
Configs ==
    [WIDTH : {8}, HEIGHT : {4}, NUMBER : 1..MaxNumber,
     PROBA_IN : {3 * (One \div 4), One}, SPEED : {1, 5}]

\* CONFIG.ENEMY_MISSILES.START_POS_RANGE_CUR / END_POS_RANGE_CUR
\* (isNone: the attribute is None; list: the Python list otherwise)
NoneList == [isNone |-> TRUE, list |-> <<>>]
ListOf(q) == [isNone |-> FALSE, list |-> q]
\* the <<start, end>> pairs of configured queues explored
QueueConfigs ==
    {<<NoneList, NoneList>>,
     <<ListOf(<<RangeB, RangeA>>), ListOf(<<RangeA>>)>>}

\* ------------------------------------------------------------------------
\* State
\* ------------------------------------------------------------------------
VARIABLES
    cfg,                    \* CONFIG (read-only for this class)
    START_POS_RANGE_CUR,    \* CONFIG.ENEMY_MISSILES.START_POS_RANGE_CUR
    END_POS_RANGE_CUR,      \* CONFIG.ENEMY_MISSILES.END_POS_RANGE_CUR
    status,                 \* per object: "absent", "constructed", "ready"
    start_pos_range_cur,    \* per object: [alias, own] - the CONFIG list or an own list
    end_pos_range_cur,
    start_pos_range,        \* per object: active range <<left, right>>
    end_pos_range,
    enemy_missiles,         \* per object: sequence of rows
    nb_missiles_launched,   \* per object
    rng_python,             \* per object: state of self._rng_python
    done,                   \* per object: value returned by the last step (FALSE before the first)
    ticks,                  \* per object: step calls since the last reset
    removed,                \* per object: ids of the rows deleted since the last reset
    paired,                 \* objects 1 and 2 were reset with one seed and step together
    configured,             \* the two CONFIG queues as configured, before any pop
    raised,                 \* the exception the last call raised, "" if it returned
    popped                  \* <<start, end>>: the pops from the two CONFIG lists, in order

vars == <<cfg, START_POS_RANGE_CUR, END_POS_RANGE_CUR, status,
          start_pos_range_cur, end_pos_range_cur, start_pos_range,
          end_pos_range, enemy_missiles, nb_missiles_launched, rng_python,
          done, ticks, removed, paired, configured, raised, popped>>

configVars == <<cfg, START_POS_RANGE_CUR, END_POS_RANGE_CUR, configured>>
queueVars == <<START_POS_RANGE_CUR, END_POS_RANGE_CUR, start_pos_range_cur,
               end_pos_range_cur>>
rangeVars == <<start_pos_range, end_pos_range>>
episodeVars == <<enemy_missiles, nb_missiles_launched, rng_python, done,
                 ticks, removed>>

\* ------------------------------------------------------------------------
\* random.Random: a seeded deterministic generator
\* ------------------------------------------------------------------------
RngStates == 0..3

\* Random(seed)
Random(seed) == seed % 4

\* the generator state after one draw
RngNext(s) == (5 * s + 3) % 4

\* the value of the draw that leaves the generator in state s
RngValue(s) == RandomValues[((s \div 2) % 2) + 1]

\* a * b for two floats of which a is a whole number or b is
MulFloat(a, b) == (a \div One) * b + ((a % One) * b) \div One

\* Random.uniform(a, b) == a + (b - a) * self.random(), u the value drawn
Uniform(a, b, u) == a + MulFloat(b - a, u)

\* ------------------------------------------------------------------------
\* __init__ and the curriculum
\* ------------------------------------------------------------------------
\* the list self.start_pos_range_cur refers to
StartQueue(self) ==
    IF start_pos_range_cur[self].alias THEN START_POS_RANGE_CUR.list
    ELSE start_pos_range_cur[self].own

EndQueue(self) ==
    IF end_pos_range_cur[self].alias THEN END_POS_RANGE_CUR.list
    ELSE end_pos_range_cur[self].own

\* the log of pops after q.pop(0) by object self; only the pops from a CONFIG
\* list (shared) are logged
Popped(log, shared, self, q) ==
    IF shared /\ Len(q) > 0
    THEN Append(log, [by |-> self, entry |-> Head(q)])
    ELSE log

\* EnemyMissiles(): each queue attribute is the CONFIG list itself when one is
\* configured, else a fresh [(-0.5, 0.5)]; the front of each is popped.
\* list.pop(0) raises IndexError on an empty list: the start pop has then
\* already happened and no object results.
Construct(self) ==
    LET sAlias == ~START_POS_RANGE_CUR.isNone
        eAlias == ~END_POS_RANGE_CUR.isNone
        sq == IF sAlias THEN START_POS_RANGE_CUR.list ELSE <<Full>>
        eq == IF eAlias THEN END_POS_RANGE_CUR.list ELSE <<Full>>
    IN  /\ status[self] = "absent"
        /\ IF Len(sq) = 0
           THEN /\ raised' = "IndexError"
                /\ UNCHANGED <<START_POS_RANGE_CUR, END_POS_RANGE_CUR, status,
                               start_pos_range_cur, end_pos_range_cur,
                               start_pos_range, end_pos_range, popped>>
           ELSE /\ START_POS_RANGE_CUR' =
                       IF sAlias THEN ListOf(Tail(sq)) ELSE START_POS_RANGE_CUR
                /\ IF Len(eq) = 0
                   THEN /\ raised' = "IndexError"
                        /\ popped' = <<Popped(popped[1], sAlias, self, sq),
                                       popped[2]>>
                        /\ UNCHANGED <<END_POS_RANGE_CUR, status,
                                       start_pos_range_cur, end_pos_range_cur,
                                       start_pos_range, end_pos_range>>
                   ELSE /\ raised' = ""
                        /\ popped' = <<Popped(popped[1], sAlias, self, sq),
                                       Popped(popped[2], eAlias, self, eq)>>
                        /\ END_POS_RANGE_CUR' =
                               IF eAlias THEN ListOf(Tail(eq)) ELSE END_POS_RANGE_CUR
                        /\ start_pos_range_cur' =
                               [start_pos_range_cur EXCEPT ![self] =
                                   [alias |-> sAlias,
                                    own |-> IF sAlias THEN <<>> ELSE Tail(sq)]]
                        /\ end_pos_range_cur' =
                               [end_pos_range_cur EXCEPT ![self] =
                                   [alias |-> eAlias,
                                    own |-> IF eAlias THEN <<>> ELSE Tail(eq)]]
                        /\ start_pos_range' =
                               [start_pos_range EXCEPT ![self] = Head(sq)]
                        /\ end_pos_range' =
                               [end_pos_range EXCEPT ![self] = Head(eq)]
                        /\ status' = [status EXCEPT ![self] = "constructed"]
        /\ UNCHANGED <<cfg, configured, episodeVars>>

\* (mutation: the queue counts as exhausted one entry early)
NextRangeEarly(q) == IF Len(q) > 1 THEN Head(q) ELSE Full

\* the range advance_curriculum makes active, q the queue before the call
NextRange(q) == IF Len(q) > 0 THEN Head(q) ELSE Full

advance_curriculum(self) ==
    LET sq == StartQueue(self)
        eq == EndQueue(self)
    IN  /\ status[self] # "absent"
        /\ start_pos_range' = [start_pos_range EXCEPT ![self] = NextRange(sq)]
        /\ end_pos_range' = [end_pos_range EXCEPT ![self] = NextRange(eq)]
        /\ START_POS_RANGE_CUR' =
               IF start_pos_range_cur[self].alias /\ Len(sq) > 0
               THEN ListOf(Tail(sq)) ELSE START_POS_RANGE_CUR
        /\ END_POS_RANGE_CUR' =
               IF end_pos_range_cur[self].alias /\ Len(eq) > 0
               THEN ListOf(Tail(eq)) ELSE END_POS_RANGE_CUR
        /\ start_pos_range_cur' = [start_pos_range_cur EXCEPT ![self].own =
               IF ~start_pos_range_cur[self].alias /\ Len(sq) > 0
               THEN Tail(sq) ELSE @]
        /\ end_pos_range_cur' = [end_pos_range_cur EXCEPT ![self].own =
               IF ~end_pos_range_cur[self].alias /\ Len(eq) > 0
               THEN Tail(eq) ELSE @]
        /\ popped' = <<Popped(popped[1], start_pos_range_cur[self].alias, self, sq),
                       Popped(popped[2], end_pos_range_cur[self].alias, self, eq)>>
        /\ raised' = ""
        /\ UNCHANGED <<cfg, configured, status, episodeVars>>

\* (mutation: the second assert is missing)
RangeArgsOkLeftOnly(left, right) ==
    -(One \div 2) <= left /\ left <= One \div 2

\* the two assert statements of set_start_pos_range / set_end_pos_range
RangeArgsOk(left, right) ==
    /\ -(One \div 2) <= left /\ left <= One \div 2
    /\ -(One \div 2) <= right /\ right <= One \div 2

set_start_pos_range(self, left, right) ==
    /\ status[self] # "absent"
    /\ IF RangeArgsOk(left, right)
       THEN start_pos_range' = [start_pos_range EXCEPT ![self] = <<left, right>>]
       ELSE UNCHANGED start_pos_range
    /\ raised' = IF RangeArgsOk(left, right) THEN "" ELSE "AssertionError"
    /\ UNCHANGED <<configVars, popped, status, start_pos_range_cur, end_pos_range_cur,
                   end_pos_range, episodeVars>>

set_end_pos_range(self, left, right) ==
    /\ status[self] # "absent"
    /\ IF RangeArgsOk(left, right)
       THEN end_pos_range' = [end_pos_range EXCEPT ![self] = <<left, right>>]
       ELSE UNCHANGED end_pos_range
    /\ raised' = IF RangeArgsOk(left, right) THEN "" ELSE "AssertionError"
    /\ UNCHANGED <<configVars, popped, status, start_pos_range_cur, end_pos_range_cur,
                   start_pos_range, episodeVars>>

\* ------------------------------------------------------------------------
\* reset, _launch_missile, step
\* ------------------------------------------------------------------------
\* (mutation: the launch count survives the reset)
ResetKeepsCount(self, s) ==
    [enemy_missiles |-> <<>>,
     nb_missiles_launched |-> nb_missiles_launched[self],
     rng_python |-> s]

\* (mutation: the batch is not replaced)
ResetKeepsMissiles(self, s) ==
    [enemy_missiles |-> enemy_missiles[self],
     nb_missiles_launched |-> 0,
     rng_python |-> s]

\* the attributes reset assigns, s the state of the new generator
ResetResult(self, s) ==
    [enemy_missiles |-> <<>>, nb_missiles_launched |-> 0, rng_python |-> s]

reset(self, seed) ==
    /\ status[self] # "absent"
    /\ \E s \in (IF seed = None THEN RngStates ELSE {Random(seed)}) :
           LET r == ResetResult(self, s)
           IN  /\ enemy_missiles' =
                      [enemy_missiles EXCEPT ![self] = r.enemy_missiles]
               /\ nb_missiles_launched' =
                      [nb_missiles_launched EXCEPT ![self] = r.nb_missiles_launched]
               /\ rng_python' = [rng_python EXCEPT ![self] = r.rng_python]
    /\ status' = [status EXCEPT ![self] = "ready"]
    /\ done' = [done EXCEPT ![self] = FALSE]
    /\ ticks' = [ticks EXCEPT ![self] = 0]
    /\ removed' = [removed EXCEPT ![self] = {}]
    /\ raised' = ""
    /\ UNCHANGED <<configVars, popped, start_pos_range_cur, end_pos_range_cur,
                   rangeVars>>

\* positions drawn by _launch_missile with the generator in state s:
\* two calls of uniform, x0 first
LaunchDraws(self, s) ==
    LET s1 == RngNext(s)
        s2 == RngNext(s1)
    IN  [x0 |-> Uniform(start_pos_range[self][1] * cfg.WIDTH,
                        start_pos_range[self][2] * cfg.WIDTH, RngValue(s1)),
         x1 |-> Uniform(end_pos_range[self][1] * cfg.WIDTH,
                        end_pos_range[self][2] * cfg.WIDTH, RngValue(s2)),
         rng |-> s2]

\* (mutation: the new row already carries its first move)
NewMissileMoved(x0, x1, id, born) ==
    LET y0 == cfg.HEIGHT * One
        y1 == 0
        norm == Norm(x1 - x0, y1 - y0)
        vx == Velocity(cfg.SPEED, x1 - x0, norm)
        vy == Velocity(cfg.SPEED, y1 - y0, norm)
    IN  [x0 |-> F32(x0), y0 |-> F32(y0),
         x |-> F32(F32(x0) + vx), y |-> F32(F32(y0) + vy),
         x1 |-> F32(x1), y1 |-> F32(y1), vx |-> vx, vy |-> vy,
         id |-> id, born |-> born, norm |-> norm]

\* the row _launch_missile appends for the drawn x0, x1; id, born and norm
\* are bookkeeping (launch number, tick of the launch, the norm computed at
\* the launch), not part of the row
NewMissile(x0, x1, id, born) ==
    LET y0 == cfg.HEIGHT * One
        y1 == 0
        norm == Norm(x1 - x0, y1 - y0)
    IN  [x0 |-> F32(x0), y0 |-> F32(y0), x |-> F32(x0), y |-> F32(y0),
         x1 |-> F32(x1), y1 |-> F32(y1),
         vx |-> Velocity(cfg.SPEED, x1 - x0, norm),
         vy |-> Velocity(cfg.SPEED, y1 - y0, norm),
         id |-> id, born |-> born, norm |-> norm]

\* "Moving missiles": one row of the vectorised float32 update
Advance(m) ==
    LET dx == Abs(F32(m.x1 - m.x))
        dy == Abs(F32(m.y1 - m.y))
        movement_x == Minimum(Abs(m.vx), dx) * Sign(m.vx)
        movement_y == Minimum(Abs(m.vy), dy) * Sign(m.vy)
    IN  [m EXCEPT !.x = IF m.vx = NaN \/ m.x = NaN THEN NaN
                        ELSE F32(m.x + movement_x),
                  !.y = IF m.vy = NaN \/ m.y = NaN THEN NaN
                        ELSE F32(m.y + movement_y)]

\* the rows np.argwhere selects for deletion
HitGround(m) == m.x = m.x1 /\ m.y = m.y1

\* (mutation: only the y axis is compared)
KeepFlyingYOnly(m) == m.y # m.y1

\* the rows np.delete keeps
KeepFlying(m) == ~HitGround(m)

\* (mutation: the launch count is not looked at)
DoneWhenEmpty(missiles, launched) == Len(missiles) = 0

\* (mutation: >= instead of ==)
DoneAtLeast(missiles, launched) ==
    Len(missiles) = 0 /\ launched >= cfg.NUMBER

\* the value step returns
Done(missiles, launched) ==
    Len(missiles) = 0 /\ launched = cfg.NUMBER

\* (mutations: no test of the count; <= instead of <)
CanLaunchAlways(launched) == TRUE
CanLaunchOffByOne(launched) == launched <= cfg.NUMBER

\* "if self.nb_missiles_launched < CONFIG.ENEMY_MISSILES.NUMBER"
CanLaunch(launched) == launched < cfg.NUMBER

\* "if self._rng_python.random() <= CONFIG.ENEMY_MISSILES.PROBA_IN"
DrawLaunches(u) == u <= cfg.PROBA_IN

\* (mutation: += 2)
CountLaunchTwice(launched) == launched + 2

\* (mutation: the increment is missing)
CountLaunchForgotten(launched) == launched

\* "self.nb_missiles_launched += 1"
CountLaunch(launched) == launched + 1

\* the state of object self after one call of step
StepResult(self) ==
    LET old == enemy_missiles[self]
        moved == [k \in 1..Len(old) |-> Advance(old[k])]
        try == CanLaunch(nb_missiles_launched[self])
        s1 == IF try THEN RngNext(rng_python[self]) ELSE rng_python[self]
        launch == try /\ DrawLaunches(RngValue(s1))
        draws == LaunchDraws(self, s1)
        launched == IF launch THEN CountLaunch(nb_missiles_launched[self])
                    ELSE nb_missiles_launched[self]
        all == IF launch
               THEN Append(moved, NewMissile(draws.x0, draws.x1,
                                             nb_missiles_launched[self] + 1,
                                             ticks[self] + 1))
               ELSE moved
        kept == SelectSeq(all, KeepFlying)
    IN  [enemy_missiles |-> kept,
         nb_missiles_launched |-> launched,
         rng_python |-> IF launch THEN draws.rng ELSE s1,
         done |-> Done(kept, launched),
         removed |-> removed[self] \cup
             ({all[k].id : k \in 1..Len(all)} \
              {kept[k].id : k \in 1..Len(kept)})]

\* (mutation: action 5, "fire missile", is counted as a launch)
stepCountsFire(self, action) ==
    LET r == StepResult(self)
    IN  /\ status[self] = "ready"
        /\ ticks[self] < MaxTicks
        /\ enemy_missiles' = [enemy_missiles EXCEPT ![self] = r.enemy_missiles]
        /\ nb_missiles_launched' =
               [nb_missiles_launched EXCEPT ![self] =
                   r.nb_missiles_launched + (IF action = 5 THEN 1 ELSE 0)]
        /\ rng_python' = [rng_python EXCEPT ![self] = r.rng_python]
        /\ done' = [done EXCEPT ![self] = r.done]
        /\ ticks' = [ticks EXCEPT ![self] = @ + 1]
        /\ removed' = [removed EXCEPT ![self] = r.removed]
        /\ raised' = ""
        /\ UNCHANGED <<configVars, popped, status, start_pos_range_cur,
                       end_pos_range_cur, rangeVars>>

step(self, action) ==
    LET r == StepResult(self)
    IN  /\ status[self] = "ready"
        /\ ticks[self] < MaxTicks
        /\ enemy_missiles' = [enemy_missiles EXCEPT ![self] = r.enemy_missiles]
        /\ nb_missiles_launched' =
               [nb_missiles_launched EXCEPT ![self] = r.nb_missiles_launched]
        /\ rng_python' = [rng_python EXCEPT ![self] = r.rng_python]
        /\ done' = [done EXCEPT ![self] = r.done]
        /\ ticks' = [ticks EXCEPT ![self] = @ + 1]
        /\ removed' = [removed EXCEPT ![self] = r.removed]
        /\ raised' = ""
        /\ UNCHANGED <<configVars, popped, status, start_pos_range_cur,
                       end_pos_range_cur, rangeVars>>

\* ------------------------------------------------------------------------
\* Specification: one EnemyMissiles object driven by its public methods
\* ------------------------------------------------------------------------
NoQueue == [alias |-> FALSE, own |-> <<>>]

InitObjects ==
    /\ status = [i \in Inst |-> "absent"]
    /\ start_pos_range_cur = [i \in Inst |-> NoQueue]
    /\ end_pos_range_cur = [i \in Inst |-> NoQueue]
    /\ start_pos_range = [i \in Inst |-> Full]
    /\ end_pos_range = [i \in Inst |-> Full]
    /\ enemy_missiles = [i \in Inst |-> <<>>]
    /\ nb_missiles_launched = [i \in Inst |-> 0]
    /\ rng_python = [i \in Inst |-> 0]
    /\ done = [i \in Inst |-> FALSE]
    /\ ticks = [i \in Inst |-> 0]
    /\ removed = [i \in Inst |-> {}]
    /\ paired = FALSE
    /\ raised = ""
    /\ popped = << <<>>, <<>> >>

Init ==
    /\ cfg \in Configs
    /\ \E q \in QueueConfigs :
           START_POS_RANGE_CUR = q[1] /\ END_POS_RANGE_CUR = q[2]
    /\ configured = <<START_POS_RANGE_CUR, END_POS_RANGE_CUR>>
    /\ InitObjects

\* the calls that change the active ranges of object self
Curriculum(self) ==
    \/ advance_curriculum(self)
    \/ \E r \in Ranges : set_start_pos_range(self, r[1], r[2])
    \/ \E r \in Ranges : set_end_pos_range(self, r[1], r[2])

\* the calls of one episode of object self
Episode(self) ==
    \/ \E seed \in Seeds \cup {None} : reset(self, seed)
    \/ \E action \in Actions : step(self, action)

Next ==
    /\ \/ Construct(1)
       \/ Episode(1)
       \/ Curriculum(1)
    /\ UNCHANGED paired

Spec == Init /\ [][Next]_vars

\* ------------------------------------------------------------------------
\* Specification: two objects; object 2 has a history, then both are reset
\* with one seed and step together
\* ------------------------------------------------------------------------
PairConfigs ==
    [WIDTH : {8}, HEIGHT : {4}, NUMBER : {MaxNumber},
     PROBA_IN : {3 * (One \div 4)}, SPEED : {1, 5}]

InitPair ==
    /\ cfg \in PairConfigs
    /\ START_POS_RANGE_CUR = NoneList /\ END_POS_RANGE_CUR = NoneList
    /\ configured = <<START_POS_RANGE_CUR, END_POS_RANGE_CUR>>
    /\ InitObjects

\* reset(seed) on object 1, then reset(seed) on object 2
PairReset(seed) ==
    /\ \A self \in Inst : status[self] # "absent"
    /\ enemy_missiles' =
           [self \in Inst |-> ResetResult(self, Random(seed)).enemy_missiles]
    /\ nb_missiles_launched' =
           [self \in Inst |-> ResetResult(self, Random(seed)).nb_missiles_launched]
    /\ rng_python' =
           [self \in Inst |-> ResetResult(self, Random(seed)).rng_python]
    /\ status' = [self \in Inst |-> "ready"]
    /\ done' = [self \in Inst |-> FALSE]
    /\ ticks' = [self \in Inst |-> 0]
    /\ removed' = [self \in Inst |-> {}]
    /\ paired' = TRUE
    /\ raised' = ""
    /\ UNCHANGED <<configVars, popped, start_pos_range_cur, end_pos_range_cur,
                   rangeVars>>

\* step(a1) on object 1, then step(a2) on object 2
PairStep(a1, a2) ==
    /\ paired
    /\ \A self \in Inst : ticks[self] < MaxTicks
    /\ enemy_missiles' = [self \in Inst |-> StepResult(self).enemy_missiles]
    /\ nb_missiles_launched' =
           [self \in Inst |-> StepResult(self).nb_missiles_launched]
    /\ rng_python' = [self \in Inst |-> StepResult(self).rng_python]
    /\ done' = [self \in Inst |-> StepResult(self).done]
    /\ ticks' = [self \in Inst |-> ticks[self] + 1]
    /\ removed' = [self \in Inst |-> StepResult(self).removed]
    /\ raised' = ""
    /\ UNCHANGED <<configVars, popped, status, start_pos_range_cur,
                   end_pos_range_cur, rangeVars, paired>>

NextPair ==
    \/ /\ ~paired
       /\ \/ Construct(1) \/ Construct(2)
          \/ Curriculum(1) \/ Curriculum(2)
          \/ Episode(2)
       /\ UNCHANGED paired
    \/ \E seed \in Seeds : PairReset(seed)
    \/ \E action \in Actions : PairStep(action, action)

SpecPair == InitPair /\ [][NextPair]_vars

\* ------------------------------------------------------------------------
\* Specification: one object; the range setters are called with arguments
\* inside and outside [-0.5, 0.5]
\* ------------------------------------------------------------------------
\* 0.6, to the nearest carrier value (only its order against 0.5 is used)
SixTenths == (6 * One) \div 10

\* <<left, right>> with a bound outside [-0.5, 0.5]
BadArgs ==
    {<<SixTenths, 0>>, <<0, SixTenths>>, <<-SixTenths, 0>>, <<0, -SixTenths>>,
     <<(One \div 2) + 1, 0>>, <<0, -(One \div 2) - 1>>}

RangeArgs == Ranges \cup BadArgs

InitArgs ==
    /\ cfg = [WIDTH |-> 8, HEIGHT |-> 4, NUMBER |-> MaxNumber,
              PROBA_IN |-> 3 * (One \div 4), SPEED |-> 5]
    /\ START_POS_RANGE_CUR = ListOf(<<RangeB, RangeA>>)
    /\ END_POS_RANGE_CUR = ListOf(<<RangeA>>)
    /\ configured = <<START_POS_RANGE_CUR, END_POS_RANGE_CUR>>
    /\ InitObjects

NextArgs ==
    /\ \/ Construct(1)
       \/ Episode(1)
       \/ advance_curriculum(1)
       \/ \E a \in RangeArgs : set_start_pos_range(1, a[1], a[2])
       \/ \E a \in RangeArgs : set_end_pos_range(1, a[1], a[2])
    /\ UNCHANGED paired

SpecArgs == InitArgs /\ [][NextArgs]_vars

\* ------------------------------------------------------------------------
\* Specification: the vertical scenario (NUMBER 1, PROBA_IN 1.0, SPEED 2,
\* HEIGHT 10, both active ranges one and the same point)
\* ------------------------------------------------------------------------
ExampleConfig ==
    [WIDTH |-> 8, HEIGHT |-> 10, NUMBER |-> 1, PROBA_IN |-> One, SPEED |-> 2]

\* ranges of one point: uniform(a, a) returns a
PointRanges == {RangeA, RangeB}

InitExample ==
    /\ cfg = ExampleConfig
    /\ START_POS_RANGE_CUR = NoneList /\ END_POS_RANGE_CUR = NoneList
    /\ configured = <<START_POS_RANGE_CUR, END_POS_RANGE_CUR>>
    /\ InitObjects

\* step is called only while start x and target x are drawn equal
NextExample ==
    /\ \/ Construct(1)
       \/ \E seed \in Seeds \cup {None} : reset(1, seed)
       \/ \E r \in PointRanges : set_start_pos_range(1, r[1], r[2])
       \/ \E r \in PointRanges : set_end_pos_range(1, r[1], r[2])
       \/ /\ start_pos_range[1] \in PointRanges
          /\ start_pos_range[1] = end_pos_range[1]
          /\ \E action \in Actions : step(1, action)
    /\ UNCHANGED paired

SpecExample == InitExample /\ [][NextExample]_vars

\* ------------------------------------------------------------------------
\* Specification: an episode of height 0 (start and target on the ground
\* line), where a launch can draw its target equal to its start
\* ------------------------------------------------------------------------
FlatConfigs ==
    [WIDTH : {8}, HEIGHT : {0}, NUMBER : 1..MaxNumber,
     PROBA_IN : {3 * (One \div 4), One}, SPEED : {1}]

InitFlat ==
    /\ cfg \in FlatConfigs
    /\ START_POS_RANGE_CUR = NoneList /\ END_POS_RANGE_CUR = NoneList
    /\ configured = <<START_POS_RANGE_CUR, END_POS_RANGE_CUR>>
    /\ InitObjects

NextFlat ==
    /\ \/ Construct(1)
       \/ Episode(1)
       \/ Curriculum(1)
    /\ UNCHANGED paired

SpecFlat == InitFlat /\ [][NextFlat]_vars

\* ------------------------------------------------------------------------
\* Specification: CONFIG.ENEMY_MISSILES.NUMBER is assigned between the calls
\* ------------------------------------------------------------------------
\* CONFIG is a module global that step reads at every call: an assignment
\* to CONFIG.ENEMY_MISSILES.NUMBER by its owner takes effect at the next step
SetNumber(n) ==
    /\ n # cfg.NUMBER
    /\ cfg' = [cfg EXCEPT !.NUMBER = n]
    /\ UNCHANGED <<START_POS_RANGE_CUR, END_POS_RANGE_CUR, configured, status,
                   start_pos_range_cur, end_pos_range_cur, rangeVars,
                   episodeVars, raised, popped>>

InitConfig ==
    /\ cfg \in [WIDTH : {8}, HEIGHT : {4}, NUMBER : {MaxNumber},
                PROBA_IN : {3 * (One \div 4), One}, SPEED : {5}]
    /\ START_POS_RANGE_CUR = NoneList /\ END_POS_RANGE_CUR = NoneList
    /\ configured = <<START_POS_RANGE_CUR, END_POS_RANGE_CUR>>
    /\ InitObjects

NextConfig ==
    /\ \/ Construct(1)
       \/ Episode(1)
       \/ \E n \in 0..MaxNumber : SetNumber(n)
    /\ UNCHANGED paired

SpecConfig == InitConfig /\ [][NextConfig]_vars

\* ------------------------------------------------------------------------
\* Specification: two objects built from one CONFIG with configured queues
\* ------------------------------------------------------------------------
SharedQueueConfigs ==
    {<<ListOf(<<RangeB, RangeA>>), ListOf(<<RangeA>>)>>,
     <<ListOf(<<RangeB, RangeA, Full>>), ListOf(<<RangeA, RangeB, RangeA>>)>>}

InitShared ==
    /\ cfg = [WIDTH |-> 8, HEIGHT |-> 4, NUMBER |-> 1,
              PROBA_IN |-> One, SPEED |-> 5]
    /\ \E q \in SharedQueueConfigs :
           START_POS_RANGE_CUR = q[1] /\ END_POS_RANGE_CUR = q[2]
    /\ configured = <<START_POS_RANGE_CUR, END_POS_RANGE_CUR>>
    /\ InitObjects

NextShared ==
    /\ \/ \E self \in Inst : Construct(self)
       \/ \E self \in Inst : advance_curriculum(self)
       \/ Episode(1)
    /\ UNCHANGED paired

SpecShared == InitShared /\ [][NextShared]_vars

\* every launch the model can make has a norm the carrier holds exactly
LaunchExact ==
    \A self \in Inst : \A s \in RngStates :
        LET d == LaunchDraws(self, s)
        IN  NormExact(d.x1 - d.x0, -(cfg.HEIGHT * One))

\* ------------------------------------------------------------------------
\* Properties
\* ------------------------------------------------------------------------
Rows(self) == {enemy_missiles[self][k] : k \in 1..Len(enemy_missiles[self])}

Between(a, b, c) == (a <= b /\ b <= c) \/ (c <= b /\ b <= a)

\* some call of step of object self happens in this transition
Stepped(self) == ticks'[self] = ticks[self] + 1

\* C1: after reset and any sequence of step calls, the current position of
\* every active missile lies between its start and its target coordinate,
\* on the x axis and on the y axis, for every configured speed.
C1_NoOvershoot ==
    \A self \in Inst : \A m \in Rows(self) :
        Between(m.x0, m.x, m.x1) /\ Between(m.y0, m.y, m.y1)

\* C2: the value step returns is true exactly if, at the end of that step,
\* no missile is active and launched_count equals the configured maximum.
C2_DoneIff ==
    \A self \in Inst :
        ticks[self] > 0 =>
            (done[self] <=> (enemy_missiles[self] = <<>> /\
                             nb_missiles_launched[self] = cfg.NUMBER))

C2_Witness ==
    /\ done[1] /\ ticks[1] >= 2 /\ removed[1] # {}
    /\ nb_missiles_launched[1] = MaxNumber

\* C3: once step has returned done = true, every later step (before the
\* next reset) returns true again, launches nothing and leaves the active
\* collection empty.
C3_DoneStays ==
    [][\A self \in Inst :
          (done[self] /\ Stepped(self)) =>
              /\ done'[self]
              /\ nb_missiles_launched'[self] = nb_missiles_launched[self]
              /\ enemy_missiles'[self] = <<>>]_vars

\* done was returned at tick 2 at the latest here (one missile, launched at
\* tick 1, on the ground one tick later), and step was called after that
C3_Witness ==
    /\ done[1] /\ ticks[1] >= 4
    /\ cfg.NUMBER = 1 /\ cfg.PROBA_IN = One /\ cfg.SPEED = 5

\* C5: 0 <= launched_count <= configured maximum in every state reached by
\* reset and step.
C5_LaunchedBounded ==
    \A self \in Inst :
        0 <= nb_missiles_launched[self] /\
        nb_missiles_launched[self] <= cfg.NUMBER

C5_Witness ==
    /\ nb_missiles_launched[1] = cfg.NUMBER /\ ticks[1] > cfg.NUMBER
    /\ cfg.PROBA_IN = One /\ enemy_missiles[1] # <<>>

\* C6: a step call never decreases launched_count and increases it by at
\* most one.
C6_LaunchedMonotone ==
    [][\A self \in Inst :
          Stepped(self) =>
              /\ nb_missiles_launched'[self] >= nb_missiles_launched[self]
              /\ nb_missiles_launched'[self] <= nb_missiles_launched[self] + 1]_vars

C6_Witness ==
    /\ nb_missiles_launched[1] = 2 /\ ticks[1] >= 3
    /\ Len(enemy_missiles[1]) = 2

RowIds(self) == {m.id : m \in Rows(self)}

\* C4: a missile leaves the active collection in exactly the step in which
\* its position equals its target on both axes: after a step no active
\* missile is at its target, a missile that left was at its target on both
\* axes after this step's move, and a missile that left is never active again.
C4_RemovedAtTarget ==
    [][\A self \in Inst :
          Stepped(self) =>
              /\ \A m \in Rows(self)' : ~(m.x = m.x1 /\ m.y = m.y1)
              /\ \A m \in Rows(self) :
                     m.id \notin RowIds(self)' =>
                         /\ Advance(m).x = m.x1 /\ Advance(m).y = m.y1
                         /\ m.id \in removed'[self]
              /\ \A m \in Rows(self)' : m.id \notin removed[self]
              /\ removed[self] \subseteq removed'[self]]_vars

\* a missile was deleted while another one is still in flight
C4_Witness ==
    /\ removed[1] # {} /\ enemy_missiles[1] # <<>>
    /\ \A m \in Rows(1) : m.id \notin removed[1]

\* ceil(distance / speed) for the norm computed at the launch
FlightTicks(m) ==
    LET s == cfg.SPEED * One
    IN  (m.norm \div s) + (IF m.norm % s = 0 THEN 0 ELSE 1)

\* C7: a missile reaches its target in exactly ceil(distance / speed) ticks:
\* it leaves in the step that many ticks after its launch and not before,
\* and in every tick of its flight it gets closer to its target (on some
\* axis the remaining distance shrinks).
C7_ExactFlightTime ==
    [][\A self \in Inst :
          Stepped(self) =>
              \A m \in Rows(self) :
                  LET a == Advance(m)
                      age == ticks'[self] - m.born
                  IN  /\ (m.id \in RowIds(self)') <=> (age < FlightTicks(m))
                      /\ ~(/\ Abs(a.x1 - a.x) >= Abs(m.x1 - m.x)
                           /\ Abs(a.y1 - a.y) >= Abs(m.y1 - m.y))]_vars

\* C8: every launched missile arrives exactly at its target, on both axes in
\* the same tick: no active missile has reached its target on one of the axes
\* it travels along and not on the other, and on every axis where it is not at
\* its target yet its velocity points to the target (so that the clamped
\* moves can bring it there).
C8_ArrivesOnBothAxes ==
    \A self \in Inst : \A m \in Rows(self) :
        /\ (m.x0 # m.x1) => ((m.x = m.x1) <=> (m.y = m.y1))
        /\ (m.x # m.x1) => Sign(m.x1 - m.x) = Sign(m.vx)
        /\ (m.y # m.y1) => Sign(m.y1 - m.y) = Sign(m.vy)

\* once a missile moves away from its target it does so for ever: it is never
\* deleted and step never returns done = true again in this episode
Diverging(m) ==
    \/ m.x # m.x1 /\ Sign(m.x1 - m.x) = -Sign(m.vx)
    \/ m.y # m.y1 /\ Sign(m.y1 - m.y) = -Sign(m.vy)

DivergingStays ==
    [][\A self \in Inst :
          Stepped(self) =>
              \A m \in Rows(self) :
                  Diverging(m) =>
                      /\ \E n \in Rows(self)' : n.id = m.id /\ Diverging(n)
                      /\ ~done'[self]]_vars

\* C9: two runs that call reset with the same seed and then step the same
\* number of times agree on every launch (tick, start, target) and on every
\* value of done, whatever happened before the reset, when the configuration
\* and the active ranges are equal.  Object 2 has an arbitrary history before
\* the common reset; the rows carry the launch tick and the positions.
C9_SameSeedSameRun ==
    (/\ paired
     /\ start_pos_range[1] = start_pos_range[2]
     /\ end_pos_range[1] = end_pos_range[2]) =>
        /\ enemy_missiles[1] = enemy_missiles[2]
        /\ nb_missiles_launched[1] = nb_missiles_launched[2]
        /\ done[1] = done[2]
        /\ removed[1] = removed[2]

\* both objects launched and lost a missile after the common reset, with
\* ranges that a curriculum call made active
C9_Witness ==
    /\ paired /\ ticks[1] >= 3 /\ ticks[2] = ticks[1]
    /\ start_pos_range[1] = start_pos_range[2]
    /\ end_pos_range[1] = end_pos_range[2]
    /\ start_pos_range[1] # end_pos_range[1]
    /\ nb_missiles_launched[2] >= 1 /\ removed[2] # {}

\* the queues object 1 consumes, as they were configured
ConfiguredStart ==
    IF configured[1].isNone THEN << <<-(One \div 2), One \div 2>> >>
    ELSE configured[1].list

ConfiguredEnd ==
    IF configured[2].isNone THEN << <<-(One \div 2), One \div 2>> >>
    ELSE configured[2].list

\* the active range after one more entry of q0 is asked for, rem the queue left
Expected(q0, rem) ==
    LET k == Len(q0) - Len(rem)
    IN  IF k < Len(q0) THEN q0[k + 1] ELSE <<-(One \div 2), One \div 2>>

Within(a) == \A k \in 1..2 : -One <= 2 * a[k] /\ 2 * a[k] <= One

\* C11: set_start_pos_range(left, right) and set_end_pos_range(left, right)
\* fail (AssertionError) unless both bounds lie in [-0.5, 0.5], as
\* set_start_pos_range(0.6, 0.0) does; a failing call leaves the active range
\* as it was, a successful one makes it exactly (left, right); in both cases
\* the other range, the queues, the missiles and launched_count stay.
C11_RangeAsserts ==
    /\ [](~Within(<<SixTenths, 0>>))
    /\ [][\A a \in RangeArgs :
            /\ set_start_pos_range(1, a[1], a[2]) =>
                  /\ IF Within(a)
                     THEN raised' = "" /\ start_pos_range'[1] = a
                     ELSE /\ raised' = "AssertionError"
                          /\ start_pos_range'[1] = start_pos_range[1]
                  /\ UNCHANGED <<end_pos_range, queueVars, enemy_missiles,
                                 nb_missiles_launched>>
            /\ set_end_pos_range(1, a[1], a[2]) =>
                  /\ IF Within(a)
                     THEN raised' = "" /\ end_pos_range'[1] = a
                     ELSE /\ raised' = "AssertionError"
                          /\ end_pos_range'[1] = end_pos_range[1]
                  /\ UNCHANGED <<start_pos_range, queueVars, enemy_missiles,
                                 nb_missiles_launched>>]_vars

\* a setter has just failed during an episode, after both ranges had been
\* set by successful calls
C11_Witness ==
    /\ raised = "AssertionError"
    /\ start_pos_range[1] = RangeA /\ end_pos_range[1] = RangeB
    /\ enemy_missiles[1] # <<>> /\ StartQueue(1) # <<>>

\* C12: reset(seed), called in any state of the object, leaves it with an
\* empty batch and launched_count 0, and changes neither the active start and
\* end ranges nor the two queues (nothing is popped).
C12_ResetFrame ==
    [][\A seed \in Seeds \cup {None} :
          reset(1, seed) =>
              /\ enemy_missiles'[1] = <<>>
              /\ nb_missiles_launched'[1] = 0
              /\ UNCHANGED <<start_pos_range, end_pos_range, queueVars,
                             popped>>]_vars

\* just after a reset: the batch is empty and the count 0, the active ranges
\* are the ones construction popped and the start queue still holds an entry
C12_Witness ==
    /\ status[1] = "ready" /\ ticks[1] = 0
    /\ enemy_missiles[1] = <<>> /\ nb_missiles_launched[1] = 0
    /\ start_pos_range[1] = RangeB /\ end_pos_range[1] = RangeA
    /\ StartQueue(1) = <<RangeA>>

\* C13: the action argument of step has no effect: the state a call of step
\* leads to (batch, launched_count, done, random source and everything else)
\* is, for every b in 0..5, the state step(b) leads to from the same state.
C13_ActionIgnored ==
    [][Stepped(1) => \A b \in Actions : step(1, b)]_vars

\* steps have launched a missile and moved it
C13_Witness ==
    /\ ticks[1] >= 2 /\ nb_missiles_launched[1] = 1
    /\ Len(enemy_missiles[1]) = 1
    /\ enemy_missiles[1][1].y # enemy_missiles[1][1].y0

\* the batch of object 1 is one missile going straight down, at height y
OneMissileAt(y) ==
    /\ Len(enemy_missiles[1]) = 1
    /\ LET m == enemy_missiles[1][1]
       IN  /\ m.y0 = cfg.HEIGHT * One /\ m.y1 = 0
           /\ m.x0 = m.x1 /\ m.x = m.x1
           /\ m.y = y

\* C14 as stated: the missile launched at tick 1 at y = 10 is at its target
\* (y = 0) at tick 5, still in the batch, and is gone, with done true, from
\* tick 6 on.
C14_ExampleAsStated ==
    status[1] = "ready" =>
        /\ ticks[1] = 1 => OneMissileAt(10 * One)
        /\ ticks[1] = 5 => OneMissileAt(0)
        /\ ticks[1] >= 6 => (enemy_missiles[1] = <<>> /\ done[1])

\* C14, amended: in the scenario the missile is launched at tick 1 at y = 10
\* with target y = 0, is at y = 10, 8, 6, 4, 2 at the end of ticks 1..5
\* (done false), reaches y = 0 in the move of tick 6 and is removed by the
\* cleanup of that same tick; done is true from tick 6 on and nothing else is
\* ever launched.
C14_ExampleScenario ==
    status[1] = "ready" =>
        /\ ticks[1] = 0 =>
              (enemy_missiles[1] = <<>> /\ nb_missiles_launched[1] = 0)
        /\ \A k \in 1..5 :
              ticks[1] = k =>
                  /\ OneMissileAt((10 - 2 * (k - 1)) * One)
                  /\ enemy_missiles[1][1].born = 1
                  /\ nb_missiles_launched[1] = 1
                  /\ removed[1] = {}
                  /\ ~done[1]
        /\ ticks[1] >= 6 =>
              /\ enemy_missiles[1] = <<>>
              /\ removed[1] = {1}
              /\ nb_missiles_launched[1] = 1
              /\ done[1]

\* the scenario has run past the removal
C14_Witness ==
    /\ cfg = ExampleConfig /\ status[1] = "ready" /\ ticks[1] = 7
    /\ done[1] /\ removed[1] = {1}
    /\ start_pos_range[1] = RangeB /\ end_pos_range[1] = RangeB

\* the next step of object self launches, and draws a target equal to the
\* start (norm = 0)
DegenerateLaunch(self) ==
    LET s1 == RngNext(rng_python[self])
        draws == LaunchDraws(self, s1)
    IN  /\ nb_missiles_launched[self] < cfg.NUMBER
        /\ RngValue(s1) <= cfg.PROBA_IN
        /\ Norm(draws.x1 - draws.x0, 0 - cfg.HEIGHT * One) = 0

\* C15: a launch whose start equals its target (norm = 0: height 0 and
\* x0 = x1) fails at once: the call raises, launched_count is not incremented
\* and no missile of undefined velocity enters the batch, not even for the
\* rest of the step.
C15_DegenerateLaunchFails ==
    [][\A self \in Inst :
          (Stepped(self) /\ DegenerateLaunch(self)) =>
              /\ raised' # ""
              /\ nb_missiles_launched'[self] = nb_missiles_launched[self]
              /\ nb_missiles_launched[self] + 1 \notin removed'[self]]_vars

\* the rows of object self after the step that were not there before it
Launched(self) == {m \in Rows(self)' : m.id \notin RowIds(self)}

\* C16: in one step the missiles in flight are moved first, then at most one
\* missile is launched, and only if launched_count is below the configured
\* maximum; the new missile is not moved in that step (at the end of it its
\* current position is its start position) and moves in the next one; the
\* rows at their target are removed last, the moved ones included.
C16_StepOrder ==
    [][Stepped(1) =>
          /\ Cardinality(Launched(1)) <= 1
          /\ Launched(1) # {} =>
                /\ nb_missiles_launched[1] < cfg.NUMBER
                /\ nb_missiles_launched'[1] = nb_missiles_launched[1] + 1
          /\ \A m \in Launched(1) :
                m.x = m.x0 /\ m.y = m.y0 /\ m.born = ticks'[1]
          /\ \A m \in Rows(1) :
                LET a == Advance(m)
                IN  /\ m.born = ticks[1] =>
                          (m.x = m.x0 /\ m.y = m.y0 /\ <<a.x, a.y>> # <<m.x, m.y>>)
                    /\ IF a.x = a.x1 /\ a.y = a.y1
                       THEN m.id \notin RowIds(1)'
                       ELSE a \in Rows(1)']_vars

\* the last step moved the first missile and launched the second one, which
\* is still at its start
C16_Witness ==
    /\ Len(enemy_missiles[1]) = 2
    /\ enemy_missiles[1][2].born = ticks[1]
    /\ enemy_missiles[1][2].y = enemy_missiles[1][2].y0
    /\ enemy_missiles[1][1].born < ticks[1]
    /\ enemy_missiles[1][1].y < enemy_missiles[1][1].y0

\* the row of object self that continues row m after this transition, if any
Continues(self, m) == {n \in Rows(self)' : n.id = m.id}

\* step and the curriculum calls change nothing of a row but its current
\* position
RowsKeepLaunchData ==
    [][\A m \in Rows(1) : \A n \in Continues(1, m) :
          /\ n.x0 = m.x0 /\ n.y0 = m.y0 /\ n.x1 = m.x1 /\ n.y1 = m.y1
          /\ n.vx = m.vx /\ n.vy = m.vy]_vars

\* C17: a missile is created with start.y = episode height, target.y = 0,
\* start.x inside the active start range times the episode width and target.x
\* inside the active end range times the episode width (the ranges active at
\* the launch); afterwards its start, target and velocity never change while
\* it is in the batch, whatever is done to the active ranges.
C17_LaunchFrame ==
    [][/\ \A m \in Launched(1) :
             /\ m.y0 = cfg.HEIGHT * One /\ m.y1 = 0
             /\ Between(start_pos_range[1][1] * cfg.WIDTH, m.x0,
                        start_pos_range[1][2] * cfg.WIDTH)
             /\ Between(end_pos_range[1][1] * cfg.WIDTH, m.x1,
                        end_pos_range[1][2] * cfg.WIDTH)
       /\ \A m \in Rows(1) : \A n \in Continues(1, m) :
             /\ n.x0 = m.x0 /\ n.y0 = m.y0 /\ n.x1 = m.x1 /\ n.y1 = m.y1
             /\ n.vx = m.vx /\ n.vy = m.vy]_vars

C19_LaunchedAccounting ==
    \A self \in Inst :
        /\ Len(enemy_missiles[self]) <= nb_missiles_launched[self]
        /\ nb_missiles_launched[self] =
               Len(enemy_missiles[self]) + Cardinality(removed[self])
        /\ Cardinality(RowIds(self)) = Len(enemy_missiles[self])
        /\ RowIds(self) \cap removed[self] = {}
        /\ RowIds(self) \cup removed[self] = 1..nb_missiles_launched[self]

\* of two missiles launched one is still in flight, the other was removed
C19_Witness ==
    /\ nb_missiles_launched[1] = 2
    /\ Len(enemy_missiles[1]) = 1 /\ Cardinality(removed[1]) = 1
    /\ ~done[1] /\ ticks[1] >= 3

\* the entries of a pop log, in order
Entries(log) == [k \in 1..Len(log) |-> log[k].entry]

\* the pops of a log made for an object that exists
ByObjects(log) == SelectSeq(log, LAMBDA e : status[e.by] # "absent")

\* every pop, whoever made it, took the front of the CONFIG list: the pops in
\* order followed by what is left are the configured list
SharedQueueLog ==
    /\ Entries(popped[1]) \o START_POS_RANGE_CUR.list = configured[1].list
    /\ Entries(popped[2]) \o END_POS_RANGE_CUR.list = configured[2].list

\* C20: with configured queues, construction and advance_curriculum take
\* their entries from the CONFIG list itself: the entries the objects got, in
\* order, followed by what is left of the list, are the configured list (no
\* entry is seen twice, none is skipped); the start and the end queue are
\* consumed independently, and a construction or an advance_curriculum that
\* finds one of them exhausted gets (-0.5, 0.5) for that range and the next
\* entry of the other one.
C20_SharedQueues ==
    /\ [](/\ Entries(ByObjects(popped[1])) \o START_POS_RANGE_CUR.list =
                 configured[1].list
          /\ Entries(ByObjects(popped[2])) \o END_POS_RANGE_CUR.list =
                 configured[2].list)
    /\ [][\A self \in Inst :
            (Construct(self) \/ advance_curriculum(self)) =>
                /\ status'[self] # "absent"
                /\ start_pos_range'[self] = NextRange(START_POS_RANGE_CUR.list)
                /\ end_pos_range'[self] = NextRange(END_POS_RANGE_CUR.list)
                /\ START_POS_RANGE_CUR'.list =
                       IF START_POS_RANGE_CUR.list = <<>> THEN <<>>
                       ELSE Tail(START_POS_RANGE_CUR.list)
                /\ END_POS_RANGE_CUR'.list =
                       IF END_POS_RANGE_CUR.list = <<>> THEN <<>>
                       ELSE Tail(END_POS_RANGE_CUR.list)]_vars

\* the same for advance_curriculum alone
AdvanceSharedQueues ==
    [][\A self \in Inst :
          advance_curriculum(self) =>
              /\ start_pos_range'[self] = NextRange(START_POS_RANGE_CUR.list)
              /\ end_pos_range'[self] = NextRange(END_POS_RANGE_CUR.list)
              /\ START_POS_RANGE_CUR'.list =
                     IF START_POS_RANGE_CUR.list = <<>> THEN <<>>
                     ELSE Tail(START_POS_RANGE_CUR.list)
              /\ END_POS_RANGE_CUR'.list =
                     IF END_POS_RANGE_CUR.list = <<>> THEN <<>>
                     ELSE Tail(END_POS_RANGE_CUR.list)]_vars

====
